---------------------------- MODULE Spec2Model ----------------------------
(* The GPX document model of src/types.rs: the entity records with their     *)
(* derived Default values, and the geometry projections Waypoint::point,     *)
(* TrackSegment::linestring, Track::multilinestring and the three ToGeo      *)
(* implementations.  A Track is populated field by field through its public  *)
(* fields, and the projections are called on it and on its parts.            *)
(*                                                                           *)
(* Option<T> is a sequence of length 0 (None) or 1 (Some(v)); Vec<T> is a    *)
(* sequence; a Point<f64> is a pair of coordinates.  A call that unwinds     *)
(* from Option::unwrap on None has the outcome Panic.                        *)
EXTENDS Naturals, Sequences, FiniteSets

VARIABLES track, ret, prev, mid

vars == <<track, ret, prev, mid>>

(* ------------------------------ bounds ---------------------------------- *)

\* Most elements the track holds: segments, waypoints and descriptive values
\* (optional fields set, links pushed) together.
MaxSize == 4

(* ------------------------- Option and outcomes -------------------------- *)

None == <<>>

Some(v) == <<v>>

Ok(v) == [tag |-> "Ok", val |-> v]

Panic == [tag |-> "Panic"]

\* Coordinates a waypoint may carry; (0,0) is Point::default().
Coords == {<<0, 0>>, <<1, 2>>}

(* --------------------------- Default values ----------------------------- *)

DefaultLink == [href |-> "", text |-> None, _type |-> None]

DefaultPerson == [name |-> None, email |-> None, link |-> None]

DefaultMetadata ==
    [name |-> None, description |-> None, author |-> None, links |-> <<>>,
     time |-> None, keywords |-> None]

\* Faulty variant of Waypoint's Default: the point defaulted to Some(Point::default()).
DefaultWaypoint_origin ==
    [point |-> Some(<<0, 0>>), elevation |-> None, time |-> None, name |-> None,
     comment |-> None, description |-> None, source |-> None, links |-> <<>>,
     symbol |-> None, _type |-> None]

DefaultWaypoint ==
    [point |-> None, elevation |-> None, time |-> None, name |-> None,
     comment |-> None, description |-> None, source |-> None, links |-> <<>>,
     symbol |-> None, _type |-> None]

DefaultTrackSegment == [points |-> <<>>]

DefaultTrack ==
    [name |-> None, comment |-> None, description |-> None, source |-> None,
     links |-> <<>>, _type |-> None, segments |-> <<>>]

DefaultGpx == [version |-> "", metadata |-> None, tracks |-> <<>>]

\* The Option-typed and the Vec-typed fields of each struct.
OptionFields(kind) ==
    CASE kind = "Gpx" -> {"metadata"}
      [] kind = "Metadata" -> {"name", "description", "author", "time", "keywords"}
      [] kind = "Track" -> {"name", "comment", "description", "source", "_type"}
      [] kind = "TrackSegment" -> {}
      [] kind = "Waypoint" ->
           {"point", "elevation", "time", "name", "comment", "description",
            "source", "symbol", "_type"}
      [] kind = "Person" -> {"name", "email", "link"}
      [] kind = "Link" -> {"text", "_type"}

VecFields(kind) ==
    CASE kind = "Gpx" -> {"tracks"}
      [] kind = "Metadata" -> {"links"}
      [] kind = "Track" -> {"links", "segments"}
      [] kind = "TrackSegment" -> {"points"}
      [] kind = "Waypoint" -> {"links"}
      [] kind = "Person" -> {}
      [] kind = "Link" -> {}

Kinds == {"Gpx", "Metadata", "Track", "TrackSegment", "Waypoint", "Person", "Link"}

Default(kind) ==
    CASE kind = "Gpx" -> DefaultGpx
      [] kind = "Metadata" -> DefaultMetadata
      [] kind = "Track" -> DefaultTrack
      [] kind = "TrackSegment" -> DefaultTrackSegment
      [] kind = "Waypoint" -> DefaultWaypoint
      [] kind = "Person" -> DefaultPerson
      [] kind = "Link" -> DefaultLink

(* --------------------------- the projections ---------------------------- *)

\* Faulty variants of point: unwrap_or_default() in place of unwrap(); an unwrap of
\* elevation beside that of point; the elevation carried into the point.
point_or_default(wpt) ==
    IF wpt.point = None THEN Ok(<<0, 0>>) ELSE Ok(wpt.point[1])

point_needs_elevation(wpt) ==
    IF wpt.point = None \/ wpt.elevation = None THEN Panic
    ELSE Ok(wpt.point[1])

point_with_elevation(wpt) ==
    IF wpt.point = None THEN Panic
    ELSE IF wpt.elevation = None THEN Ok(wpt.point[1])
    ELSE Ok(<<wpt.point[1][1], wpt.point[1][2], wpt.elevation[1]>>)

\* self.point.unwrap()
point(wpt) == IF wpt.point = None THEN Panic ELSE Ok(wpt.point[1])

\* points.iter().map(|wpt| wpt.point()).collect(): the waypoints are visited
\* front to back and the first unwrap of None unwinds out of the whole call.
RECURSIVE CollectPoints(_)
CollectPoints(wpts) ==
    IF wpts = <<>> THEN Ok(<<>>)
    ELSE LET h == point(Head(wpts)) IN
         IF h.tag = "Panic" THEN Panic
         ELSE LET r == CollectPoints(Tail(wpts)) IN
              IF r.tag = "Panic" THEN Panic ELSE Ok(<<h.val>> \o r.val)

\* Faulty variants of linestring: the points collected back to front; the waypoints
\* without a point skipped (filter_map in place of map).
RECURSIVE Reverse(_)
Reverse(q) == IF q = <<>> THEN <<>> ELSE Reverse(Tail(q)) \o <<Head(q)>>

linestring_rev(seg) == CollectPoints(Reverse(seg.points))

HasPoint(wpt) == wpt.point # None

linestring_skip(seg) == CollectPoints(SelectSeq(seg.points, HasPoint))

linestring(seg) == CollectPoints(seg.points)

\* segments.iter().map(|seg| seg.linestring()).collect()
RECURSIVE CollectLines(_)
CollectLines(segs) ==
    IF segs = <<>> THEN Ok(<<>>)
    ELSE LET h == linestring(Head(segs)) IN
         IF h.tag = "Panic" THEN Panic
         ELSE LET r == CollectLines(Tail(segs)) IN
              IF r.tag = "Panic" THEN Panic ELSE Ok(<<h.val>> \o r.val)

\* Faulty variant of multilinestring: the segments without waypoints left out.
HasWaypoints(seg) == seg.points # <<>>

multilinestring_nonempty(trk) == CollectLines(SelectSeq(trk.segments, HasWaypoints))

multilinestring(trk) == CollectLines(trk.segments)

\* Geometry::<variant>(inner): the argument is evaluated first, so its panic
\* is the call's panic.
Geometry(variant, inner) ==
    IF inner.tag = "Panic" THEN Panic
    ELSE Ok([variant |-> variant, geom |-> inner.val])

to_geo_Waypoint(wpt) == Geometry("Point", point(wpt))

\* Faulty variant of to_geo for TrackSegment: the wrong variant.
to_geo_TrackSegment_multi(seg) == Geometry("MultiLineString", linestring(seg))

to_geo_TrackSegment(seg) == Geometry("LineString", linestring(seg))

to_geo_Track(trk) == Geometry("MultiLineString", multilinestring(trk))

(* ------------------------- the populated fields ------------------------- *)

\* The Option-typed fields of Waypoint other than point, and of Track.
WaypointOptFields ==
    {"elevation", "time", "name", "comment", "description", "source",
     "symbol", "_type"}

TrackOptFields == {"name", "comment", "description", "source", "_type"}

\* A value for each field's type: f64, DateTime<Utc>, String.
FieldValue(f) ==
    IF f = "elevation" THEN 7 ELSE IF f = "time" THEN 1 ELSE "a"

ALink == [href |-> "u", text |-> None, _type |-> None]

SegIdx == 1..Len(track.segments)

WptIdx(s) == 1..Len(track.segments[s].points)

RECURSIVE SumLen(_)
SumLen(segs) ==
    IF segs = <<>> THEN 0 ELSE Len(Head(segs).points) + SumLen(Tail(segs))

WptMeta(wpt) ==
    Cardinality({f \in WaypointOptFields : wpt[f] # None}) + Len(wpt.links)

RECURSIVE SumWptMeta(_)
SumWptMeta(wpts) ==
    IF wpts = <<>> THEN 0 ELSE WptMeta(Head(wpts)) + SumWptMeta(Tail(wpts))

RECURSIVE SumSegMeta(_)
SumSegMeta(segs) ==
    IF segs = <<>> THEN 0
    ELSE SumWptMeta(Head(segs).points) + SumSegMeta(Tail(segs))

MetaCount(trk) ==
    Cardinality({f \in TrackOptFields : trk[f] # None}) + Len(trk.links)
    + SumSegMeta(trk.segments)

(* ------------------------------ the state ------------------------------- *)
(* track  the Track being populated and projected                           *)
(* ret    the outcome of the latest call, cleared when the track is written  *)
(* prev   the first linestring or multilinestring call made since the track  *)
(*        was last written                                                   *)
(* mid    a projection call other than prev's was made after prev            *)

NoCall == [op |-> "none"]

CallRec(op, kind, s, w, out) ==
    [op |-> op, kind |-> kind, s |-> s, w |-> w, out |-> out]

SameCall(a, b) ==
    a.op = b.op /\ a.op # "none" /\ a.kind = b.kind /\ a.s = b.s /\ a.w = b.w

Size(trk) == Len(trk.segments) + SumLen(trk.segments) + MetaCount(trk)

Init ==
    /\ track = DefaultTrack
    /\ ret = NoCall
    /\ prev = NoCall
    /\ mid = FALSE

\* Bookkeeping of a write to the track: the recorded outcomes are of the
\* track as it was.
Wrote ==
    /\ ret' = NoCall
    /\ prev' = NoCall
    /\ mid' = FALSE

\* Bookkeeping of a projection call that came back with rec.
Called(rec) ==
    /\ ret' = rec
    /\ prev' = IF prev = NoCall /\ rec.op \in {"linestring", "multilinestring"}
               THEN rec ELSE prev
    /\ mid' = (prev # NoCall /\ (mid \/ ~SameCall(prev, rec)))

(* --------------------------- writes to fields --------------------------- *)

PushSegment ==
    /\ Size(track) < MaxSize
    /\ track' = [track EXCEPT !.segments = Append(@, DefaultTrackSegment)]
    /\ Wrote

PushWaypoint(s) ==
    /\ Size(track) < MaxSize
    /\ track' = [track EXCEPT !.segments[s].points = Append(@, DefaultWaypoint)]
    /\ Wrote

SetPoint(s, w, p) ==
    /\ track.segments[s].points[w].point # p
    /\ track' = [track EXCEPT !.segments[s].points[w].point = p]
    /\ Wrote

SetWaypointField(s, w, f, v) ==
    /\ track.segments[s].points[w][f] # v
    /\ v # None => Size(track) < MaxSize
    /\ track' = [track EXCEPT !.segments[s].points[w][f] = v]
    /\ Wrote

PushWaypointLink(s, w) ==
    /\ Size(track) < MaxSize
    /\ track' = [track EXCEPT !.segments[s].points[w].links = Append(@, ALink)]
    /\ Wrote

ClearWaypointLinks(s, w) ==
    /\ track.segments[s].points[w].links # <<>>
    /\ track' = [track EXCEPT !.segments[s].points[w].links = <<>>]
    /\ Wrote

SetTrackField(f, v) ==
    /\ track[f] # v
    /\ v # None => Size(track) < MaxSize
    /\ track' = [track EXCEPT ![f] = v]
    /\ Wrote

PushTrackLink ==
    /\ Size(track) < MaxSize
    /\ track' = [track EXCEPT !.links = Append(@, ALink)]
    /\ Wrote

ClearTrackLinks ==
    /\ track.links # <<>>
    /\ track' = [track EXCEPT !.links = <<>>]
    /\ Wrote

(* ------------------------------ the calls ------------------------------- *)

Construct(kind) ==
    /\ ret' = CallRec("default", kind, 0, 0, Ok(Default(kind)))
    /\ UNCHANGED <<track, prev, mid>>

\* Faulty variant of the call of point: self.point.take().unwrap().
CallPoint_take(s, w) ==
    /\ Called(CallRec("point", "Waypoint", s, w, point(track.segments[s].points[w])))
    /\ track' = [track EXCEPT !.segments[s].points[w].point = None]

CallPoint(s, w) ==
    /\ Called(CallRec("point", "Waypoint", s, w, point(track.segments[s].points[w])))
    /\ UNCHANGED track

\* Faulty variant of the call of linestring: self.points.drain(..) in place of iter().
CallLinestring_drain(s) ==
    /\ Called(CallRec("linestring", "TrackSegment", s, 0, linestring(track.segments[s])))
    /\ track' = [track EXCEPT !.segments[s].points = <<>>]

CallLinestring(s) ==
    /\ Called(CallRec("linestring", "TrackSegment", s, 0, linestring(track.segments[s])))
    /\ UNCHANGED track

CallMultilinestring ==
    /\ Called(CallRec("multilinestring", "Track", 0, 0, multilinestring(track)))
    /\ UNCHANGED track

CallToGeoWaypoint(s, w) ==
    /\ Called(CallRec("to_geo", "Waypoint", s, w,
                      to_geo_Waypoint(track.segments[s].points[w])))
    /\ UNCHANGED track

CallToGeoTrackSegment(s) ==
    /\ Called(CallRec("to_geo", "TrackSegment", s, 0,
                      to_geo_TrackSegment(track.segments[s])))
    /\ UNCHANGED track

CallToGeoTrack ==
    /\ Called(CallRec("to_geo", "Track", 0, 0, to_geo_Track(track)))
    /\ UNCHANGED track

Projection ==
    \/ \E s \in SegIdx : \E w \in WptIdx(s) : CallPoint(s, w)
    \/ \E s \in SegIdx : CallLinestring(s)
    \/ CallMultilinestring
    \/ \E s \in SegIdx : \E w \in WptIdx(s) : CallToGeoWaypoint(s, w)
    \/ \E s \in SegIdx : CallToGeoTrackSegment(s)
    \/ CallToGeoTrack

Write ==
    \/ PushSegment
    \/ \E s \in SegIdx : PushWaypoint(s)
    \/ \E s \in SegIdx : \E w \in WptIdx(s) :
          \E p \in {None} \cup {Some(c) : c \in Coords} : SetPoint(s, w, p)
    \/ \E s \in SegIdx : \E w \in WptIdx(s) : \E f \in WaypointOptFields :
          \E v \in {None, Some(FieldValue(f))} : SetWaypointField(s, w, f, v)
    \/ \E s \in SegIdx : \E w \in WptIdx(s) : PushWaypointLink(s, w)
    \/ \E s \in SegIdx : \E w \in WptIdx(s) : ClearWaypointLinks(s, w)
    \/ \E f \in TrackOptFields :
          \E v \in {None, Some(FieldValue(f))} : SetTrackField(f, v)
    \/ PushTrackLink
    \/ ClearTrackLinks

Next ==
    \/ Write
    \/ Projection

Spec == Init /\ [][Next]_vars

\* Default construction of each entity type, beside the writes to the track.
NextConstruct ==
    \/ Write
    \/ \E kind \in Kinds : Construct(kind)

SpecConstruct == Init /\ [][NextConstruct]_vars

(* ------------------------------ the claims ------------------------------ *)

ProjOps == {"point", "linestring", "multilinestring", "to_geo"}

\* The waypoints and the segments a track holds.
Wpts(trk) ==
    UNION {{trk.segments[s].points[w] : w \in 1..Len(trk.segments[s].points)}
             : s \in 1..Len(trk.segments)}

Segs(trk) == {trk.segments[s] : s \in 1..Len(trk.segments)}

\* The waypoints the receiver of the latest call holds.
RetWpts ==
    CASE ret.kind = "Waypoint" -> {track.segments[ret.s].points[ret.w]}
      [] ret.kind = "TrackSegment" -> Wpts([segments |-> <<track.segments[ret.s]>>])
      [] ret.kind = "Track" -> Wpts(track)

PointsOfSeg(seg) == [i \in 1..Len(seg.points) |-> seg.points[i].point]

PointsOfTrack(trk) == [j \in 1..Len(trk.segments) |-> PointsOfSeg(trk.segments[j])]

\* C1: linestring() of a segment whose N waypoints all have a point returns
\* exactly N points, the i-th being the point of the i-th waypoint (N = 0
\* gives the empty linestring).
C1_LinestringKeepsPoints ==
    ret.op = "linestring" =>
       LET seg == track.segments[ret.s] IN
       (\A i \in 1..Len(seg.points) : seg.points[i].point # None) =>
          /\ ret.out.tag = "Ok"
          /\ Len(ret.out.val) = Len(seg.points)
          /\ \A i \in 1..Len(seg.points) : ret.out.val[i] = seg.points[i].point[1]

C1_Witness ==
    /\ ret.op = "linestring"
    /\ ret.out.tag = "Ok"
    /\ Len(ret.out.val) = 2
    /\ ret.out.val[1] # ret.out.val[2]

\* C2: multilinestring() of a track whose waypoints all have a point returns
\* one linestring per segment, the j-th being linestring() of the j-th segment;
\* a segment without waypoints contributes an empty linestring at its place.
C2_MultilinestringKeepsSegments ==
    (ret.op = "multilinestring" /\ \A wpt \in Wpts(track) : wpt.point # None) =>
       /\ ret.out.tag = "Ok"
       /\ Len(ret.out.val) = Len(track.segments)
       /\ \A j \in 1..Len(track.segments) :
             /\ ret.out.val[j] = linestring(track.segments[j]).val
             /\ Len(ret.out.val[j]) = Len(track.segments[j].points)
             /\ \A i \in 1..Len(track.segments[j].points) :
                   ret.out.val[j][i] = track.segments[j].points[i].point[1]

C2_Witness ==
    /\ ret.op = "multilinestring"
    /\ ret.out.tag = "Ok"
    /\ Len(ret.out.val) = 2
    /\ ret.out.val[1] = <<>>
    /\ ret.out.val[2] # <<>>

\* C3: point() on a waypoint without a point panics, whatever its other
\* fields, and returns no coordinate; with a point it returns that point.
C3_PointUnwraps ==
    ret.op = "point" =>
       LET wpt == track.segments[ret.s].points[ret.w] IN
       /\ wpt.point = None => ret.out = Panic
       /\ wpt.point # None => ret.out = Ok(wpt.point[1])

C3_Witness ==
    /\ ret.op = "point"
    /\ ret.out = Panic
    /\ WptMeta(track.segments[ret.s].points[ret.w]) > 0

\* C4: default construction of each entity type returns a value whose
\* Option-typed fields are all None and whose Vec-typed fields are all empty.
C4_DefaultIsEmpty ==
    ret.op = "default" =>
       /\ ret.out.tag = "Ok"
       /\ \A f \in OptionFields(ret.kind) : ret.out.val[f] = None
       /\ \A f \in VecFields(ret.kind) : ret.out.val[f] = <<>>

C4_Witness ==
    /\ ret.op = "default"
    /\ ret.kind = "Waypoint"
    /\ ret.out.tag = "Ok"
    /\ ret.out.val.point = None

\* C5: to_geo() returns the variant of its entity (Point for a Waypoint,
\* LineString for a TrackSegment, MultiLineString for a Track) holding the
\* entity's own projection, and panics exactly when that projection panics.
C5_ToGeoWrapsProjection ==
    ret.op = "to_geo" =>
       LET inner ==
             CASE ret.kind = "Waypoint" -> point(track.segments[ret.s].points[ret.w])
               [] ret.kind = "TrackSegment" -> linestring(track.segments[ret.s])
               [] ret.kind = "Track" -> multilinestring(track)
           variant ==
             CASE ret.kind = "Waypoint" -> "Point"
               [] ret.kind = "TrackSegment" -> "LineString"
               [] ret.kind = "Track" -> "MultiLineString"
       IN /\ ret.out.tag = "Panic" <=> inner.tag = "Panic"
          /\ inner.tag = "Ok" =>
                /\ ret.out.val.variant = variant
                /\ ret.out.val.geom = inner.val

C5_Witness ==
    /\ ret.op = "to_geo"
    /\ ret.kind = "TrackSegment"
    /\ ret.out.tag = "Ok"
    /\ ret.out.val.variant = "LineString"
    /\ ret.out.val.geom # <<>>

\* C6 as stated: no projection call panics because an Option-typed field is
\* None, so no projection call panics at all.
C6_NoPanicOnNone ==
    ret.op \in ProjOps => ret.out.tag # "Panic"

\* C6 as amended: an Option-typed field other than Waypoint's point may be None
\* without error: a projection call whose receiver's waypoints all have a point
\* returns, however many of the other Option-typed fields are None.
C6_NoPanicOnNoneButPoint ==
    (ret.op \in ProjOps /\ \A wpt \in RetWpts : wpt.point # None) =>
       ret.out.tag = "Ok"

C6_Witness ==
    /\ ret.op = "to_geo"
    /\ ret.kind = "Track"
    /\ ret.out.tag = "Ok"
    /\ Wpts(track) # {}
    /\ MetaCount(track) = 0

\* C7: a linestring() or multilinestring() call repeated on an entity that was
\* not written in between returns what the first call returned, also when
\* other projection calls were made in between.
C7_RepeatedCallAgrees ==
    (prev # NoCall /\ SameCall(prev, ret)) => ret.out = prev.out

C7_Witness ==
    /\ prev # NoCall
    /\ SameCall(prev, ret)
    /\ mid
    /\ ret.out.tag = "Ok"
    /\ ret.out.val # <<>>

\* C8: two waypoints (segments, tracks) with the same present points in the
\* same positions have equal point() (linestring(), multilinestring()) and
\* to_geo() results, whatever their other fields: taken over every pair of
\* entities of the track before and after a step.
C8_GeometryIgnoresOtherFields ==
    [][/\ \A a, b \in Wpts(track) \cup Wpts(track') :
             (a.point = b.point /\ a.point # None) =>
                /\ point(a) = point(b)
                /\ to_geo_Waypoint(a) = to_geo_Waypoint(b)
       /\ \A a, b \in Segs(track) \cup Segs(track') :
             (/\ PointsOfSeg(a) = PointsOfSeg(b)
              /\ \A i \in 1..Len(a.points) : a.points[i].point # None) =>
                /\ linestring(a) = linestring(b)
                /\ to_geo_TrackSegment(a) = to_geo_TrackSegment(b)
       /\ (/\ PointsOfTrack(track) = PointsOfTrack(track')
           /\ \A wpt \in Wpts(track) : wpt.point # None) =>
             /\ multilinestring(track) = multilinestring(track')
             /\ to_geo_Track(track) = to_geo_Track(track')]_vars

C8_Witness ==
    /\ ret.op = "linestring"
    /\ ret.out.tag = "Ok"
    /\ \E a, b \in Wpts(track) :
          a.point = b.point /\ a.point # None /\ a.elevation # b.elevation

\* C9: a projection call, returning or panicking, leaves every field of the
\* track, of its segments and of their waypoints as it was.
C9_ProjectionKeepsTrack ==
    [][Projection => track' = track]_vars

C9_Witness ==
    /\ mid
    /\ prev.out.tag = "Ok"
    /\ ret.out.tag = "Panic"

\* C10: linestring() panics exactly when a waypoint of the segment has no
\* point, multilinestring() exactly when a waypoint of a segment of the track
\* has none; a panicking call returns no geometry, every other call returns.
C10_PanicIffPointMissing ==
    /\ ret.op = "linestring" =>
          /\ ret.out = Panic <=>
                \E i \in 1..Len(track.segments[ret.s].points) :
                   track.segments[ret.s].points[i].point = None
          /\ ret.out # Panic => ret.out.tag = "Ok"
    /\ ret.op = "multilinestring" =>
          /\ ret.out = Panic <=> \E wpt \in Wpts(track) : wpt.point = None
          /\ ret.out # Panic => ret.out.tag = "Ok"

C10_Witness ==
    /\ ret.op = "multilinestring"
    /\ ret.out = Panic
    /\ \E seg \in Segs(track) : linestring(seg).tag = "Ok" /\ seg.points # <<>>

=============================================================================
